---- MODULE Spec2Model ----
(***************************************************************************)
(* PageRank (Ai_Project/pagerank.py): the transition model, the sampling   *)
(* estimator and the iterative estimator.                                  *)
(*                                                                         *)
(* Numbers.  The program computes with floats; the model computes the same *)
(* expressions exactly.  A mapping from pages to numbers is a record       *)
(*     [num |-> [page -> numerator], den |-> denominator]                  *)
(* (every value of one mapping over the same denominator).  The iterative  *)
(* estimator's denominators grow by a constant factor each round, so its   *)
(* numerators and denominator are arbitrary-precision naturals: sequences  *)
(* of limbs in base Base, least significant first, <<>> being zero.        *)
(***************************************************************************)
EXTENDS Integers, Sequences, FiniteSets

\* ------------------------------------------------------------------ bounds
MaxPages == 4
MaxSamples == 3

\* ------------------------------------------------------- program constants
DampingNum == 17
DampingDen == 20
ThresholdDen == 1000

DAMPING == <<DampingNum, DampingDen>>
\* damping factors the estimators are called with: DAMPING, a larger and a smaller one
Dampings == {DAMPING, <<9, 10>>, <<1, 2>>}

\* ------------------------------------------------- arbitrary-precision naturals
Base == 100 * 100

RECURSIVE BNorm(_)
BNorm(a) ==
    IF a = <<>> THEN <<>>
    ELSE IF a[Len(a)] = 0 THEN BNorm(SubSeq(a, 1, Len(a) - 1)) ELSE a

Big(k) == IF k = 0 THEN <<>> ELSE IF k < Base THEN <<k>> ELSE <<k % Base, k \div Base>>

RECURSIVE BAddC(_, _, _)
BAddC(a, b, c) ==
    IF a = <<>> /\ b = <<>> THEN (IF c = 0 THEN <<>> ELSE <<c>>)
    ELSE LET x == IF a = <<>> THEN 0 ELSE Head(a)
             y == IF b = <<>> THEN 0 ELSE Head(b)
             s == x + y + c
         IN  <<s % Base>> \o BAddC(IF a = <<>> THEN a ELSE Tail(a),
                                   IF b = <<>> THEN b ELSE Tail(b),
                                   s \div Base)

BAdd(a, b) == BAddC(a, b, 0)

RECURSIVE BMulC(_, _, _)
BMulC(a, k, c) ==
    IF a = <<>> THEN (IF c = 0 THEN <<>> ELSE BMulC(<<0>>, k, c))
    ELSE LET s == Head(a) * k + c
         IN  <<s % Base>> \o BMulC(Tail(a), k, s \div Base)

\* a * k for a small natural k (k * Base fits a machine integer)
BMul(a, k) == IF k = 0 THEN <<>> ELSE BMulC(a, k, 0)

RECURSIVE BLessFrom(_, _, _)
BLessFrom(a, b, j) ==
    IF j = 0 THEN FALSE
    ELSE IF a[j] # b[j] THEN a[j] < b[j] ELSE BLessFrom(a, b, j - 1)

BLess(a, b) ==
    IF Len(a) # Len(b) THEN Len(a) < Len(b) ELSE BLessFrom(a, b, Len(a))

BLeq(a, b) == ~BLess(b, a)

RECURSIVE BSubC(_, _, _)
BSubC(a, b, c) ==
    IF a = <<>> THEN <<>>
    ELSE LET y == IF b = <<>> THEN 0 ELSE Head(b)
             s == Head(a) - y - c
         IN  <<IF s < 0 THEN s + Base ELSE s>>
             \o BSubC(Tail(a), IF b = <<>> THEN b ELSE Tail(b), IF s < 0 THEN 1 ELSE 0)

\* abs(a - b)
BAbsDiff(a, b) == IF BLess(a, b) THEN BNorm(BSubC(b, a, 0)) ELSE BNorm(BSubC(a, b, 0))

\* ------------------------------------------------------------- link graphs
\* crawl: the keys are the pages; a page's links are other pages of the
\* corpus (the page itself and names outside the corpus are filtered out)
RECURSIVE LinkMaps(_, _)
LinkMaps(k, p) ==
    IF p = 0 THEN {<<>>}
    ELSE { Append(g, links) : g \in LinkMaps(k, p - 1),
                              links \in SUBSET ((1..k) \ {p}) }

crawl == UNION { LinkMaps(k, k) : k \in 1..MaxPages }

Keys(corpus) == DOMAIN corpus

RECURSIVE Gcd(_, _)
Gcd(a, b) == IF b = 0 THEN a ELSE Gcd(b, a % b)

\* least common multiple of the out-degrees of the pages 1..p that have links
RECURSIVE LinksLcm(_, _)
LinksLcm(corpus, p) ==
    IF p = 0 THEN 1
    ELSE LET m == LinksLcm(corpus, p - 1)
             l == Cardinality(corpus[p])
         IN  IF l = 0 THEN m ELSE (m * l) \div Gcd(m, l)

VARIABLES
    corpus,         \* the link graph: page -> set of pages
    damping,        \* damping_factor, <<numerator, denominator>>
    pc,             \* position in the running function
    page_rank,      \* [num, den]: the estimator's page_rank dictionary
    calculated_pr,  \* [num, den]: iterate_pagerank's calculated_pr
    condition,      \* iterate_pagerank's loop condition
    n,              \* sample_pagerank's n
    i,              \* sample_pagerank's loop variable
    sample_page,    \* sample_pagerank's current page (0: none)
    origin,         \* how sample_page was drawn: "start" or "transition"
    page,           \* transition_model's argument (0: none)
    dist            \* transition_model's result

vars == <<corpus, damping, pc, page_rank, calculated_pr, condition,
          n, i, sample_page, origin, page, dist>>

None == "none"

\* a mapping with no entries yet, over the denominator den
Unset(den) == [num |-> <<>>, den |-> den]

\* main before any call; ranks is the not yet assigned rank mapping
Start(ranks) ==
    /\ corpus = <<>>
    /\ damping = <<0, 1>>
    /\ pc = "main"
    /\ page_rank = ranks
    /\ calculated_pr = ranks
    /\ condition = TRUE
    /\ n = 0 /\ i = 0 /\ sample_page = 0 /\ origin = None
    /\ page = 0 /\ dist = Unset(1)

\* ------------------------------------------------------ transition_model
\* transition_model where the links get damping_factor / len(corpus)
transition_modelByCorpus(c, pg, d) ==
    LET links == c[pg]
        N == Len(c)
        L == Cardinality(links)
    IN  IF L = 0
        THEN [num |-> [link \in Keys(c) |-> 1], den |-> N]
        ELSE [num |-> [link \in Keys(c) |->
                          (d[2] - d[1]) * L + (IF link \in links THEN d[1] * L ELSE 0)],
              den |-> d[2] * N * L]

\* transition_model where the links are assigned damping_factor / len(links)
\* instead of having it added
transition_modelAssign(c, pg, d) ==
    LET links == c[pg]
        N == Len(c)
        L == Cardinality(links)
    IN  IF L = 0
        THEN [num |-> [link \in Keys(c) |-> 1], den |-> N]
        ELSE [num |-> [link \in Keys(c) |->
                          IF link \in links THEN d[1] * N ELSE (d[2] - d[1]) * L],
              den |-> d[2] * N * L]

\* lines 71-85; with links, the values are over the denominator of
\* (1 - damping_factor) / len(corpus) and damping_factor / len(links)
transition_model(c, pg, d) ==
    LET links == c[pg]
        N == Len(c)
        L == Cardinality(links)
    IN  IF L = 0
        THEN [num |-> [link \in Keys(c) |-> 1], den |-> N]
        ELSE LET base == [link \in Keys(c) |-> (d[2] - d[1]) * L]
             IN  [num |-> [link \in Keys(c) |->
                             IF link \in links THEN base[link] + d[1] * N ELSE base[link]],
                  den |-> d[2] * N * L]

\* a call of transition_model on a page of a crawled corpus
TransCall ==
    /\ pc = "main"
    /\ corpus' \in crawl
    /\ damping' \in Dampings
    /\ page' \in Keys(corpus')
    /\ pc' = "transition_model"
    /\ UNCHANGED <<page_rank, calculated_pr, condition, n, i, sample_page, origin, dist>>

TransReturn ==
    /\ pc = "transition_model"
    /\ dist' = transition_model(corpus, page, damping)
    /\ pc' = "returned"
    /\ UNCHANGED <<corpus, damping, page_rank, calculated_pr, condition, n, i,
                   sample_page, origin, page>>

NextTrans == TransCall \/ TransReturn

SpecTrans == Start(Unset(1)) /\ [][NextTrans]_vars

\* ------------------------------------------- properties of transition_model
RECURSIVE SumTo(_, _)
SumTo(f, q) == IF q = 0 THEN 0 ELSE SumTo(f, q - 1) + f[q]

\* C1: the result has an entry for every page of the graph, its values are
\* non-negative and they sum to exactly 1.
Thm_C1 ==
    (pc = "returned" /\ page \in Keys(corpus)) =>
        /\ DOMAIN dist.num = Keys(corpus)
        /\ dist.den > 0
        /\ \A q \in Keys(corpus) : dist.num[q] >= 0
        /\ SumTo(dist.num, Len(corpus)) = dist.den

\* a result for a page that links to some, not all, of the other pages
Wit_C1 ==
    /\ pc = "returned" /\ page \in Keys(corpus)
    /\ corpus[page] # {}
    /\ Cardinality(corpus[page]) < Len(corpus) - 1

\* C2: each page q gets 1/N if the current page has no links; otherwise
\* (1-d)/N + d/L if the current page links to q and (1-d)/N if it does not.
Thm_C2 ==
    (pc = "returned" /\ page \in Keys(corpus)) =>
        LET N == Len(corpus)
            L == Cardinality(corpus[page])
            dn == damping[1]
            dd == damping[2]
        IN  \A q \in Keys(corpus) :
               IF L = 0 THEN dist.num[q] * N = dist.den
               ELSE IF q \in corpus[page]
                    THEN dist.num[q] * (dd * N * L) = dist.den * ((dd - dn) * L + dn * N)
                    ELSE dist.num[q] * (dd * N) = dist.den * (dd - dn)

\* a result for a page with two or more links in a graph with another page
\* that it does not link to
Wit_C2 ==
    /\ pc = "returned" /\ page \in Keys(corpus)
    /\ Cardinality(corpus[page]) >= 2
    /\ \E q \in Keys(corpus) : q # page /\ q \notin corpus[page]

\* ------------------------------------------------------- sample_pagerank
\* random.choices draws a page of positive weight
Support(d) == { q \in DOMAIN d.num : d.num[q] > 0 }

\* main, lines 18 and 21, with any n
SampleCall ==
    /\ pc = "main"
    /\ corpus' \in crawl
    /\ damping' \in Dampings
    /\ n' \in -1..MaxSamples
    /\ pc' = "sample"
    /\ UNCHANGED <<page_rank, calculated_pr, condition, i, sample_page, origin, page, dist>>

\* lines 97-101: the counters are 0 and the first page is drawn uniformly
SampleStart ==
    /\ pc = "sample"
    /\ page_rank' = [num |-> [key \in Keys(corpus) |-> 0], den |-> 1]
    /\ sample_page' \in Keys(corpus)
    /\ origin' = "start"
    /\ i' = 1
    /\ pc' = IF 1 < n THEN "loop" ELSE "normalize"
    /\ UNCHANGED <<corpus, damping, calculated_pr, condition, n, page, dist>>

\* SampleLoop that draws the next page before it records the visit
SampleLoopDrawFirst ==
    /\ pc = "loop"
    /\ LET page_dist == transition_model(corpus, sample_page, damping)
       IN  /\ sample_page' \in Support(page_dist)
           /\ page_rank' = [page_rank EXCEPT !.num[sample_page'] = @ + 1]
    /\ origin' = "transition"
    /\ i' = i + 1
    /\ pc' = IF i + 1 < n THEN "loop" ELSE "normalize"
    /\ UNCHANGED <<corpus, damping, calculated_pr, condition, n, page, dist>>

\* SampleLoop that records no visit in its last iteration
SampleLoopSkipLast ==
    /\ pc = "loop"
    /\ page_rank' = IF i + 1 < n THEN [page_rank EXCEPT !.num[sample_page] = @ + 1]
                    ELSE page_rank
    /\ LET page_dist == transition_model(corpus, sample_page, damping)
       IN  sample_page' \in Support(page_dist)
    /\ origin' = "transition"
    /\ i' = i + 1
    /\ pc' = IF i + 1 < n THEN "loop" ELSE "normalize"
    /\ UNCHANGED <<corpus, damping, calculated_pr, condition, n, page, dist>>

\* lines 103-106: one iteration of `for i in range(1, n)`
SampleLoop ==
    /\ pc = "loop"
    /\ page_rank' = [page_rank EXCEPT !.num[sample_page] = @ + 1]
    /\ LET page_dist == transition_model(corpus, sample_page, damping)
       IN  sample_page' \in Support(page_dist)
    /\ origin' = "transition"
    /\ i' = i + 1
    /\ pc' = IF i + 1 < n THEN "loop" ELSE "normalize"
    /\ UNCHANGED <<corpus, damping, calculated_pr, condition, n, page, dist>>

\* lines 109-112: every counter is divided by n
SampleNormalize ==
    /\ pc = "normalize"
    /\ n # 0
    /\ page_rank' = [page_rank EXCEPT !.den = @ * n]
    /\ pc' = "returned"
    /\ UNCHANGED <<corpus, damping, calculated_pr, condition, n, i, sample_page, origin,
                   page, dist>>

\* line 110 with n = 0: the first division raises
SampleDivideByZero ==
    /\ pc = "normalize"
    /\ n = 0
    /\ pc' = "ZeroDivisionError"
    /\ UNCHANGED <<corpus, damping, page_rank, calculated_pr, condition, n, i, sample_page,
                   origin, page, dist>>

NextSample ==
    SampleCall \/ SampleStart \/ SampleLoop \/ SampleNormalize \/ SampleDivideByZero

SpecSample == Start(Unset(1)) /\ [][NextSample]_vars

\* ------------------------------------------- properties of sample_pagerank
Sampling == pc \in {"sample", "loop", "normalize", "returned", "ZeroDivisionError"}

\* C6 as stated, for sample_pagerank: on a single page without links, with
\* damping 0.85 and n >= 1, the returned rank of the page is 1.
Orig_C6 ==
    (pc = "returned" /\ Sampling /\ n >= 1 /\ corpus = <<{}>> /\ damping = DAMPING) =>
        page_rank.num[1] = page_rank.den

Orig_C9 == (Sampling /\ n < 1) => pc # "returned"

\* C10 as stated: a page whose visit is recorded was drawn from the
\* transition model, never by the uniform draw of the start.
Orig_C10 == (Sampling /\ pc = "loop") => origin = "transition"

\* C10 amended: the first iteration records the uniformly drawn start page;
\* every later iteration records the page drawn from the transition model of
\* the page before it; the page drawn in the last iteration is not recorded.
Thm_C10 ==
    [][(Sampling /\ pc = "loop") =>
          /\ page_rank'.num = [page_rank.num EXCEPT ![sample_page] = @ + 1]
          /\ origin = (IF i = 1 THEN "start" ELSE "transition")
          /\ sample_page' \in Support(transition_model(corpus, sample_page, damping))
          /\ origin' = "transition"
          /\ (pc' = "normalize" => SumTo(page_rank'.num, Len(corpus)) = n - 1)]_vars

\* the loop has ended on a page that was drawn and has no recorded visit
Wit_C10 ==
    /\ Sampling /\ pc = "normalize"
    /\ n >= 3
    /\ origin = "transition"
    /\ page_rank.num[sample_page] = 0

\* ------------------------------------------------------ iterate_pagerank
\* One round multiplies the denominator of the ranks by RoundScale: the
\* denominators of D, of 1/N and of every 1/NumLinks.
RoundScale(c, d) == d[2] * Len(c) * LinksLcm(c, Len(c))

\* InnerSum without the term of the pages that have no links
RECURSIVE InnerSumLinkedOnly(_, _, _, _)
InnerSumLinkedOnly(c, pr, current_page, q) ==
    IF q = 0 THEN <<>>
    ELSE LET N == Len(c)
             lcm == LinksLcm(c, N)
             sum0 == InnerSumLinkedOnly(c, pr, current_page, q - 1)
         IN  IF current_page \in c[q]
             THEN BAdd(sum0, BMul(pr.num[q], (N * lcm) \div Cardinality(c[q])))
             ELSE sum0

\* the inner loop `for page in corpus` for one current_page, over the pages
\* 1..q, in units of 1 / (pr.den * N * LinksLcm)
RECURSIVE InnerSum(_, _, _, _)
InnerSum(c, pr, current_page, q) ==
    IF q = 0 THEN <<>>
    ELSE LET N == Len(c)
             lcm == LinksLcm(c, N)
             sum0 == InnerSum(c, pr, current_page, q - 1)
             NumLinks == Cardinality(c[q])
             sum1 == IF current_page \in c[q]
                     THEN BAdd(sum0, BMul(pr.num[q], (N * lcm) \div NumLinks))
                     ELSE sum0
         IN  IF c[q] = {} THEN BAdd(sum1, BMul(pr.num[q], lcm)) ELSE sum1

\* CalcRound with random_choice = 1 - D, not divided by N
CalcRoundUndivided(c, d, pr) ==
    LET N == Len(c)
        lcm == LinksLcm(c, N)
        random_choice == BMul(pr.den, (d[2] - d[1]) * lcm * N)
    IN  [num |-> [current_page \in DOMAIN pr.num |->
                    BAdd(random_choice, BMul(InnerSum(c, pr, current_page, N), d[1]))],
         den |-> BMul(pr.den, RoundScale(c, d))]

\* the first loop of a round: calculated_pr for every current_page
CalcRound(c, d, pr) ==
    LET N == Len(c)
        lcm == LinksLcm(c, N)
        random_choice == BMul(pr.den, (d[2] - d[1]) * lcm)
    IN  [num |-> [current_page \in DOMAIN pr.num |->
                    LET sum == InnerSum(c, pr, current_page, N)
                        d_times_sum == BMul(sum, d[1])
                    IN  BAdd(random_choice, d_times_sum)],
         den |-> BMul(pr.den, RoundScale(c, d))]

\* Differs with the threshold 0.01
DiffersLoose(c, d, pr, calc, p) ==
    BLess(calc.den,
          BMul(BAbsDiff(BMul(pr.num[p], RoundScale(c, d)), calc.num[p]), 100))

\* abs(page_rank[p] - calculated_pr[p]) > 0.001, calc one round after pr
Differs(c, d, pr, calc, p) ==
    BLess(calc.den,
          BMul(BAbsDiff(BMul(pr.num[p], RoundScale(c, d)), calc.num[p]), ThresholdDen))

\* StillChanging that goes on only while every page differs
StillChangingAll(c, d, pr, calc) ==
    \A p \in DOMAIN pr.num : Differs(c, d, pr, calc, p)

\* the second loop of a round: the new value of condition
StillChanging(c, d, pr, calc) ==
    \E p \in DOMAIN pr.num : Differs(c, d, pr, calc, p)

\* main, lines 18 and 28: the corpus is crawled and iterate_pagerank is called
IterCall ==
    /\ pc = "main"
    /\ corpus' \in crawl
    /\ damping' \in Dampings
    /\ pc' = "iterate"
    /\ UNCHANGED <<page_rank, calculated_pr, condition, n, i, sample_page, origin, page, dist>>

\* lines 123-132: every page's rank is 1 / N
IterStart ==
    /\ pc = "iterate"
    /\ page_rank' = [num |-> [p \in Keys(corpus) |-> Big(1)], den |-> Big(Len(corpus))]
    /\ pc' = "calc"
    /\ UNCHANGED <<corpus, damping, calculated_pr, condition, n, i, sample_page, origin, page, dist>>

\* lines 136-146
IterCalc ==
    /\ pc = "calc"
    /\ condition
    /\ calculated_pr' = CalcRound(corpus, damping, page_rank)
    /\ pc' = "check"
    /\ UNCHANGED <<corpus, damping, page_rank, condition, n, i, sample_page, origin, page, dist>>

\* lines 148-155
IterCheck ==
    /\ pc = "check"
    /\ condition' = StillChanging(corpus, damping, page_rank, calculated_pr)
    /\ page_rank' = calculated_pr
    /\ pc' = IF condition' THEN "calc" ELSE "returned"
    /\ UNCHANGED <<corpus, damping, calculated_pr, n, i, sample_page, origin, page, dist>>

NextIter == IterCall \/ IterStart \/ IterCalc \/ IterCheck

SpecIter == Start(Unset(<<1>>)) /\ [][NextIter]_vars

\* The interpreter keeps executing a function that has not returned.  Every
\* step of NextIter changes pc and one is enabled until the function returns,
\* so this is weak fairness of NextIter.
IterExecute ==
    /\ pc \in {"main", "iterate", "calc", "check"}
    /\ pc' \in {"iterate", "calc", "check", "returned"} \ {pc}

FairSpecIter == SpecIter /\ WF_pc(IterExecute)

\* ------------------------------------------- properties of iterate_pagerank
RECURSIVE BSumTo(_, _)
BSumTo(f, q) == IF q = 0 THEN <<>> ELSE BAdd(BSumTo(f, q - 1), f[q])

RECURSIVE SetSum(_, _)
SetSum(w, S) ==
    IF S = {} THEN <<>>
    ELSE LET x == CHOOSE x \in S : TRUE IN BAdd(w[x], SetSum(w, S \ {x}))

InLinks(c, P) == { Q \in Keys(c) : P \in c[Q] }
Dangling(c) == { Q \in Keys(c) : c[Q] = {} }

\* (1-d)/N + d * sum over Q linking to P of old(Q)/outDegree(Q)
\*         + d * sum over Q without links of old(Q)/N,
\* as a numerator over old.den * RoundScale
Recurrence(c, d, old, P) ==
    LET N == Len(c)
        lcm == LinksLcm(c, N)
        linked == SetSum([Q \in InLinks(c, P) |->
                            BMul(old.num[Q], (N * lcm) \div Cardinality(c[Q]))],
                         InLinks(c, P))
        dangling == SetSum([Q \in Dangling(c) |-> BMul(old.num[Q], lcm)], Dangling(c))
    IN  BAdd(BMul(old.den, (d[2] - d[1]) * lcm), BMul(BAdd(linked, dangling), d[1]))

\* abs(new[P] - old[P]) <= a / b, new one round after old
ChangeAtMost(c, d, old, new, P, a, b) ==
    BLeq(BMul(BAbsDiff(BMul(old.num[P], RoundScale(c, d)), new.num[P]), b),
         BMul(new.den, a))

Rounds1(c, d) == BMul(Big(Len(c)), RoundScale(c, d))

\* C3: in every round the new rank of every page is the recurrence applied to
\* the previous round's ranks, which are all still in page_rank when
\* calculated_pr is complete; the term of the pages without links is in the
\* update of every page.
Thm_C3 ==
    pc = "check" =>
        /\ DOMAIN calculated_pr.num = Keys(corpus)
        /\ calculated_pr.den = BMul(page_rank.den, RoundScale(corpus, damping))
        /\ \A P \in Keys(corpus) :
              calculated_pr.num[P] = Recurrence(corpus, damping, page_rank, P)

\* a round after the first, with a page without links and a page without
\* incoming links
Wit_C3 ==
    /\ pc = "check"
    /\ page_rank.den # Big(Len(corpus))
    /\ Dangling(corpus) # {}
    /\ \E P \in Keys(corpus) : InLinks(corpus, P) = {} /\ corpus[P] # {}

\* C4: the loop terminates, and it returns at the end of the first round in
\* which every page's rank changed by at most 0.001, with that round's ranks.
Thm_C4 ==
    /\ <>(pc = "returned")
    /\ [][pc = "check" =>
            /\ page_rank' = calculated_pr
            /\ (pc' = "returned") <=>
                 \A P \in Keys(corpus) :
                    ChangeAtMost(corpus, damping, page_rank, calculated_pr, P, 1, ThresholdDen)
            /\ pc' \in {"returned", "calc"}]_vars

\* returned after more than one round
Wit_C4 ==
    /\ pc = "returned"
    /\ BLess(Rounds1(corpus, damping), page_rank.den)

\* C5: the ranks sum to 1 after initialization and after every completed
\* round, so the returned ranks sum to 1 (the values are naturals over a
\* positive denominator, hence non-negative).
Thm_C5 ==
    pc \in {"calc", "check", "returned"} =>
        /\ BSumTo(page_rank.num, Len(corpus)) = page_rank.den
        /\ page_rank.den # <<>>

\* returned after more than one round from a graph with a page without links
Wit_C5 ==
    /\ pc = "returned"
    /\ Len(corpus) >= 3
    /\ Dangling(corpus) # {}
    /\ BLess(Rounds1(corpus, damping), page_rank.den)

\* C8 as stated: one more round on the returned ranks changes every page's
\* rank by at most 0.001.
Orig_C8 ==
    pc = "returned" =>
        \A P \in Keys(corpus) :
            ChangeAtMost(corpus, damping, page_rank,
                         CalcRound(corpus, damping, page_rank), P, 1, ThresholdDen)

\* C8 amended: one more round on the returned ranks changes every page's
\* rank by at most 0.001 * d * N / 2.
Thm_C8 ==
    pc = "returned" =>
        \A P \in Keys(corpus) :
            ChangeAtMost(corpus, damping, page_rank,
                         CalcRound(corpus, damping, page_rank), P,
                         damping[1] * Len(corpus), 2 * damping[2] * ThresholdDen)

\* returned ranks that one more round changes by more than 0.001
Wit_C8 ==
    /\ pc = "returned"
    /\ \E P \in Keys(corpus) :
          ~ChangeAtMost(corpus, damping, page_rank,
                        CalcRound(corpus, damping, page_rank), P, 1, ThresholdDen)

====
